---- MODULE Spec2Model ----
(***************************************************************************)
(* Telemetry link of LocalizacionMascota: the 13-byte wire codec           *)
(* (gps_handler.cpp), the transmitter's asynchronous send session and      *)
(* periodic scheduler (NodoMascota lora_handler.cpp, main.cpp) and the     *)
(* receiver's tick and sample cache (NodoUsuario lora_handler.cpp).        *)
(*                                                                         *)
(* A double holding degrees is modelled as an integer counting             *)
(* 1/SubUnits of the wire resolution (1e-5 degree): the value v stands     *)
(* for v / (SubUnits * 100000) degrees.  Bytes are 0..255, a buffer is a   *)
(* sequence of bytes, a pointer is a record [null, bytes].                 *)
(***************************************************************************)
EXTENDS Integers, Sequences, FiniteSets, TLC

VARIABLES
  \* ---- codec harness: one call of encode and one of decode
  cPc,        \* "start", "encoded", "decoded", "decodedRaw"
  cIn,        \* the GpsInfo handed to GPS_buildBinaryPayload
  cBuf,       \* the output pointer as it was before the call
  cRet,       \* return value of GPS_buildBinaryPayload
  cOut,       \* the output buffer after the call
  dIn,        \* the pointer handed to GPS_parsePayload
  dLen,       \* the length handed to GPS_parsePayload
  dPrev,      \* the caller's GpsInfo before the call
  dRet,       \* return value of GPS_parsePayload
  dOut,       \* the caller's GpsInfo after the call
  dWho        \* which copy decoded: "mascota" or "usuario"

VARIABLES
  \* ---- transmitter, lora_handler.cpp
  transmittedFlag,    \* static volatile bool transmittedFlag
  transmissionState,  \* static int transmissionState (a RADIOLIB_ERR_ name)
  \* ---- transmitter, main.cpp
  payload,            \* static uint8_t payload[13]
  lastSentHHMMSS,     \* static uint32_t lastSentHHMMSS
  txInProgress,       \* static bool txInProgress
  \* ---- transmitter, collaborators
  gps,                \* what TinyGPS++ holds: [fix, lat, lon, hhmmss]
  radioInit,          \* radio.begin() succeeded in LORA_begin
  radioBusy,          \* the driver holds an accepted send not yet finalized
  radioIrq,           \* the send-complete interrupt of that send is still to come
  \* ---- transmitter, observations
  sendLog,            \* one record per call of radio.startTransmit
  finishCount,        \* calls of radio.finishTransmit so far
  tickObs,            \* what the last loop() iteration saw and did
  apiObs              \* the last call of a lora_handler function and its result

VARIABLES
  \* ---- receiver, lora_handler.cpp
  s_rxFlag,     \* static volatile bool s_rxFlag
  s_lastGps,    \* static GpsInfo s_lastGps
  s_lastRssi,   \* static float s_lastRssi (dBm)
  s_lastSnr,    \* static float s_lastSnr (dB)
  rxPc,         \* where LORA_rxTick stands: "idle" between two calls
  rxLen,        \* int16_t len (0 until the tick sets it)
  rxBuf,        \* uint8_t buf[LORA_MAX_READ], the bytes readData wrote
  rxSt,         \* int st (ERR_NONE until the tick sets it)
  \* ---- receiver, collaborators
  radioPkt,     \* the packet the transceiver holds: [bytes, rssi, snr]
  \* ---- receiver, observations
  rxPre,        \* flag, cache and metrics when the current tick was entered
  rxCalls,      \* the driver calls of the current tick, in order
  rxObs,        \* what the last finished tick saw
  pktReads,     \* calls of radio.readData made on the packet the transceiver holds
  readObs       \* the last call of LORA_lastValidGPS since the last tick

VARIABLES
  \* ---- scheduler harness: the timing rule on two samples
  sched         \* [pc, a, b, period, dueA, dueB]

VARIABLES
  \* ---- radio channel between the two nodes
  chanNext      \* index in sendLog of the first frame still on its way

codecVars == <<cPc, cIn, cBuf, cRet, cOut, dIn, dLen, dPrev, dRet, dOut, dWho>>

txLoraVars == <<transmittedFlag, transmissionState>>

txMainVars == <<payload, lastSentHHMMSS, txInProgress>>

txRadioVars == <<radioInit, radioBusy, radioIrq>>

txObsVars == <<sendLog, finishCount, tickObs, apiObs>>

txVars == <<txLoraVars, txMainVars, gps, txRadioVars, txObsVars>>

rxStateVars == <<s_rxFlag, s_lastGps, s_lastRssi, s_lastSnr>>

rxLocalVars == <<rxPc, rxLen, rxBuf, rxSt>>

rxObsVars == <<rxPre, rxCalls, rxObs>>

rxVars == <<rxStateVars, rxLocalVars, radioPkt, rxObsVars, pktReads, readObs>>

vars == <<codecVars, txVars, rxVars, sched, chanNext>>

otherThanCodec == <<txVars, rxVars, sched, chanNext>>

otherThanTx == <<codecVars, rxVars, sched, chanNext>>

otherThanRx == <<codecVars, txVars, sched, chanNext>>

otherThanSched == <<codecVars, txVars, rxVars, chanNext>>

-----------------------------------------------------------------------------
(* Bounds and program constants *)

\* model units per 1e-5 degree (the resolution of a modelled double)
SubUnits == 10

\* lat*1e5, lon*1e5
Scale == 100000

\* size of the wire frame
PayloadLen == 13

\* static const uint16_t PERIOD = 10
PERIOD == 10

\* len > 256 in LORA_startTx
MaxTxLen == 256

\* static const int LORA_MAX_READ = 64
LORA_MAX_READ == 64

\* calls of radio.startTransmit a run of the model follows
MaxSends == 3

\* calls of radio.finishTransmit a run of the lora_handler harness follows
MaxFinish == 2

\* calls of radio.readData on one packet that are told apart
MaxReads == 2

-----------------------------------------------------------------------------
(* Data *)

Abs(x) == IF x < 0 THEN -x ELSE x

Deg(d) == d * Scale * SubUnits

GpsInfo(lat, lon, hhmmss, valid) ==
  [lat |-> lat, lon |-> lon, hhmmss |-> hhmmss, valid |-> valid]

\* GpsInfo info {0,0,0,false}
GpsInfoZero == GpsInfo(0, 0, 0, FALSE)

NullPtr == [null |-> TRUE, bytes |-> <<>>]

Ptr(bytes) == [null |-> FALSE, bytes |-> bytes]

\* a buffer of n bytes that all hold b
Fill(n, b) == [i \in 1..n |-> b]

-----------------------------------------------------------------------------
(* Wire codec: gps_handler.cpp *)

\* lround without the rounding: a plain (int32_t) cast truncates toward zero
LroundTruncated(x) ==
  IF x >= 0 THEN x \div SubUnits ELSE -((-x) \div SubUnits)

\* lround(x * 100000.0): nearest integer, halves away from zero
Lround(x) ==
  IF x >= 0 THEN (2 * x + SubUnits) \div (2 * SubUnits)
            ELSE -((2 * (-x) + SubUnits) \div (2 * SubUnits))

\* byte i (0 = lowest) of the 32-bit two's-complement or unsigned value v
ByteOf(v, i) == (v \div (256 ^ i)) % 256

\* the same four bytes in network (big-endian) order
BE32(v) == <<ByteOf(v, 3), ByteOf(v, 2), ByteOf(v, 1), ByteOf(v, 0)>>

\* memcpy(&out[k], &v, 4) on the little-endian target
LE32(v) == <<ByteOf(v, 0), ByteOf(v, 1), ByteOf(v, 2), ByteOf(v, 3)>>

\* memcpy(&hhmmss, &in[1], 4): uint32_t from four little-endian bytes
U32(b) == b[1] + 256 * b[2] + 65536 * b[3] + 16777216 * b[4]

\* memcpy(&latFixed, &in[5], 4): int32_t from four little-endian bytes
S32(b) ==
  b[1] + 256 * b[2] + 65536 * b[3]
    + 16777216 * (IF b[4] >= 128 THEN b[4] - 256 ELSE b[4])

\* encode that skips the validity test
GPS_buildBinaryPayloadNoValidCheck(info, out, outSize) ==
  IF out.null \/ outSize < PayloadLen
  THEN [ret |-> 0, out |-> out]
  ELSE [ret |-> PayloadLen,
        out |-> Ptr(<<1>> \o LE32(info.hhmmss) \o LE32(Lround(info.lat))
                      \o LE32(Lround(info.lon))
                      \o SubSeq(out.bytes, PayloadLen + 1, Len(out.bytes)))]

\* encode that writes the marker byte before it tests the sample
GPS_buildBinaryPayloadMarkerFirst(info, out, outSize) ==
  IF out.null \/ outSize < PayloadLen
  THEN [ret |-> 0, out |-> out]
  ELSE IF ~info.valid
  THEN [ret |-> 0, out |-> Ptr(<<1>> \o SubSeq(out.bytes, 2, Len(out.bytes)))]
  ELSE [ret |-> PayloadLen,
        out |-> Ptr(<<1>> \o LE32(info.hhmmss) \o LE32(Lround(info.lat))
                      \o LE32(Lround(info.lon))
                      \o SubSeq(out.bytes, PayloadLen + 1, Len(out.bytes)))]

\* size_t GPS_buildBinaryPayload(const GpsInfo& info, uint8_t* out, size_t outSize)
GPS_buildBinaryPayload(info, out, outSize) ==
  IF out.null \/ outSize < PayloadLen \/ ~info.valid
  THEN [ret |-> 0, out |-> out]
  ELSE [ret |-> PayloadLen,
        out |-> Ptr(<<1>> \o LE32(info.hhmmss) \o LE32(Lround(info.lat))
                      \o LE32(Lround(info.lon))
                      \o SubSeq(out.bytes, PayloadLen + 1, Len(out.bytes)))]

\* decode that accepts any marker byte
GPS_parsePayloadAnyMarker(in, len, out) ==
  IF in.null \/ len # PayloadLen
  THEN [ok |-> FALSE, out |-> out]
  ELSE [ok |-> TRUE,
        out |-> GpsInfo(S32(SubSeq(in.bytes, 6, 9)) * SubUnits,
                        S32(SubSeq(in.bytes, 10, 13)) * SubUnits,
                        U32(SubSeq(in.bytes, 2, 5)), TRUE)]

\* bool GPS_parsePayload(const uint8_t* in, size_t len, GpsInfo& out), transmitter copy
GPS_parsePayload(in, len, out) ==
  IF in.null \/ len # PayloadLen
  THEN [ok |-> FALSE, out |-> out]
  ELSE IF in.bytes[1] # 1
  THEN [ok |-> FALSE, out |-> out]
  ELSE [ok |-> TRUE,
        out |-> GpsInfo(S32(SubSeq(in.bytes, 6, 9)) * SubUnits,
                        S32(SubSeq(in.bytes, 10, 13)) * SubUnits,
                        U32(SubSeq(in.bytes, 2, 5)), TRUE)]

\* decode that takes the longitude from bytes 5..8 and the latitude from 9..12
GPS_parsePayloadRxSwapped(in, len, out) ==
  IF in.null \/ len # PayloadLen
  THEN [ok |-> FALSE, out |-> out]
  ELSE IF in.bytes[1] # 1
  THEN [ok |-> FALSE, out |-> out]
  ELSE [ok |-> TRUE,
        out |-> GpsInfo(S32(SubSeq(in.bytes, 10, 13)) * SubUnits,
                        S32(SubSeq(in.bytes, 6, 9)) * SubUnits,
                        U32(SubSeq(in.bytes, 2, 5)), TRUE)]

\* bool GPS_parsePayload(const uint8_t* in, size_t len, GpsInfo& out), receiver copy
GPS_parsePayloadRx(in, len, out) ==
  IF in.null \/ len # PayloadLen
  THEN [ok |-> FALSE, out |-> out]
  ELSE IF in.bytes[1] # 1
  THEN [ok |-> FALSE, out |-> out]
  ELSE [ok |-> TRUE,
        out |-> GpsInfo(S32(SubSeq(in.bytes, 6, 9)) * SubUnits,
                        S32(SubSeq(in.bytes, 10, 13)) * SubUnits,
                        U32(SubSeq(in.bytes, 2, 5)), TRUE)]

-----------------------------------------------------------------------------
(* Inputs of the codec harness *)

\* latitudes in [-90, 90]: the ends, the scenario value, values between two
\* wire steps on both sides of zero (below, at and above the half)
LatSamples ==
  {Deg(-90), Deg(90), 0, 4041680 * SubUnits,
   -(SubUnits \div 2), SubUnits \div 2, (SubUnits \div 2) + 1,
   -(4041680 * SubUnits + (SubUnits \div 2) + 1)}

\* longitudes in [-180, 180]
LonSamples ==
  {Deg(-180), Deg(180), 0, -370380 * SubUnits,
   -(SubUnits \div 2), (SubUnits \div 2) - 1,
   370380 * SubUnits + (SubUnits \div 2)}

\* times of day HHMMSS in [0, 235959]
TimeSamples == {0, 5, 10, 211507, 235959}

CodecSamples ==
  {GpsInfo(la, lo, t, v) : la \in LatSamples, lo \in LonSamples,
                           t \in TimeSamples, v \in BOOLEAN}

\* output buffers: none, too small (0, 12), exact, larger; filled with 170
OutBuffers ==
  {NullPtr} \cup
  {Ptr(Fill(n, 170)) : n \in {0, PayloadLen - 1, PayloadLen, PayloadLen + 3}}

ScenarioFrame == <<1, 51, 58, 3, 0, 208, 171, 61, 0, 52, 89, 250, 255>>

\* 13 bytes of marker 1 holding time 16777215, latitude 1342.17728 and
\* longitude -1342.17729 degrees
GarbageFrame == <<1, 255, 255, 255, 0, 0, 0, 0, 8, 255, 255, 255, 247>>

\* raw decoder inputs: none, short, long, bad markers, the scenario frame,
\* and 13 bytes of marker 1 that no encode of a sample in range produces
RawInputs ==
  {NullPtr, Ptr(<<>>), Ptr(<<1>>),
   Ptr(Fill(PayloadLen - 1, 1)), Ptr(Fill(PayloadLen + 1, 1)),
   Ptr(<<0>> \o SubSeq(ScenarioFrame, 2, PayloadLen)),
   Ptr(<<2>> \o SubSeq(ScenarioFrame, 2, PayloadLen)),
   Ptr(<<255>> \o SubSeq(ScenarioFrame, 2, PayloadLen)),
   Ptr(ScenarioFrame),
   Ptr(GarbageFrame)}

\* what the caller's GpsInfo holds before a decode
PrevInfos == {GpsInfoZero, GpsInfo(Deg(1), Deg(2), 120000, TRUE)}

-----------------------------------------------------------------------------
(* Codec harness: encode a sample, decode the result or a raw input *)

CodecInitState ==
  /\ cPc = "start"
  /\ cIn = GpsInfoZero
  /\ cBuf = NullPtr
  /\ cRet = 0
  /\ cOut = NullPtr
  /\ dIn = NullPtr
  /\ dLen = 0
  /\ dPrev = GpsInfoZero
  /\ dRet = FALSE
  /\ dOut = GpsInfoZero
  /\ dWho = "none"

CodecInputs ==
  /\ cPc = "start"
  /\ cIn \in CodecSamples
  /\ cBuf = NullPtr
  /\ cRet = 0
  /\ cOut = NullPtr
  /\ dIn = NullPtr
  /\ dLen = 0
  /\ dPrev = GpsInfoZero
  /\ dRet = FALSE
  /\ dOut = GpsInfoZero
  /\ dWho = "none"

Decoder(who, in, len, out) ==
  IF who = "mascota" THEN GPS_parsePayload(in, len, out)
                     ELSE GPS_parsePayloadRx(in, len, out)

\* len = GPS_buildBinaryPayload(info, payload, sizeof(payload))
CodecEncode ==
  /\ cPc = "start"
  /\ \E buf \in OutBuffers :
       LET r == GPS_buildBinaryPayload(cIn, buf, Len(buf.bytes)) IN
         /\ cBuf' = buf
         /\ cRet' = r.ret
         /\ cOut' = r.out
  /\ cPc' = "encoded"
  /\ UNCHANGED <<cIn, dIn, dLen, dPrev, dRet, dOut, dWho>>
  /\ UNCHANGED otherThanCodec

\* GPS_parsePayload(payload, len, check) on the frame just encoded
CodecDecode ==
  /\ cPc = "encoded"
  /\ cRet = PayloadLen
  /\ \E who \in {"mascota", "usuario"}, prev \in PrevInfos :
       LET in == Ptr(SubSeq(cOut.bytes, 1, cRet))
           r  == Decoder(who, in, cRet, prev) IN
         /\ dIn' = in
         /\ dLen' = cRet
         /\ dPrev' = prev
         /\ dRet' = r.ok
         /\ dOut' = r.out
         /\ dWho' = who
  /\ cPc' = "decoded"
  /\ UNCHANGED <<cIn, cBuf, cRet, cOut>>
  /\ UNCHANGED otherThanCodec

\* GPS_parsePayload on bytes that came from elsewhere
CodecDecodeRaw ==
  /\ cPc = "start"
  /\ \E who \in {"mascota", "usuario"}, in \in RawInputs, prev \in PrevInfos :
       LET r == Decoder(who, in, Len(in.bytes), prev) IN
         /\ dIn' = in
         /\ dLen' = Len(in.bytes)
         /\ dPrev' = prev
         /\ dRet' = r.ok
         /\ dOut' = r.out
         /\ dWho' = who
  /\ cPc' = "decodedRaw"
  /\ UNCHANGED <<cIn, cBuf, cRet, cOut>>
  /\ UNCHANGED otherThanCodec

-----------------------------------------------------------------------------
(* Transmitter: collaborators (TinyGPS++, RadioLib SX1262) *)

ERR_NONE == "RADIOLIB_ERR_NONE"

ERR_INVALID_PAYLOAD == "RADIOLIB_ERR_INVALID_PAYLOAD"

\* what radio.begin() and radio.startTransmit() may answer
DriverStatuses == {ERR_NONE, "RADIOLIB_ERR_PACKET_TOO_LONG", "RADIOLIB_ERR_SPI_CMD_FAILED"}

\* the fixes the parser may hold, in the order they arrive: a time of day
\* and the position at that time
TxFixes ==
  {<<0, 4041680 * SubUnits, -370380 * SubUnits>>,
   <<5, 4041680 * SubUnits + (SubUnits \div 2), -370380 * SubUnits>>,
   <<7, 4041681 * SubUnits, -370380 * SubUnits>>,
   <<10, -(SubUnits \div 2), Deg(180)>>,
   <<211500, Deg(-90), Deg(-180)>>,
   <<211510, 0, 0>>}

GpsStates ==
  {[fix |-> f, lat |-> p[2], lon |-> p[3], hhmmss |-> p[1]] :
     f \in BOOLEAN, p \in TxFixes}

\* bool GPS_hasFix()
GPS_hasFix(g) == g.fix

\* GpsInfo GPS_getInfo()
GPS_getInfo(g) ==
  IF g.fix THEN GpsInfo(g.lat, g.lon, g.hhmmss, TRUE) ELSE GpsInfoZero

\* GPS_update(): the parser takes in what arrived; the clock does not run back
GPS_update(g) == {n \in GpsStates : n.hhmmss >= g.hhmmss}

\* radio.startTransmit(payload, len) answering st: [busy, irq] afterwards
RadioStartTransmit(st, busy, irq) ==
  IF st = ERR_NONE THEN [busy |-> TRUE, irq |-> TRUE]
                   ELSE [busy |-> busy, irq |-> irq]

-----------------------------------------------------------------------------
(* Transmitter: lora_handler.cpp *)

\* start that takes any length
LORA_startTxNoLengthCheck(ptr, len, st, flag, state) ==
  [ret |-> (st = ERR_NONE), flag |-> FALSE, state |-> st, called |-> TRUE]

\* start that reports success whatever the driver answered
LORA_startTxReturnsTrue(ptr, len, st, flag, state) ==
  IF ptr.null \/ len = 0 \/ len > MaxTxLen
  THEN [ret |-> FALSE, flag |-> flag, state |-> ERR_INVALID_PAYLOAD,
        called |-> FALSE]
  ELSE [ret |-> TRUE, flag |-> FALSE, state |-> st, called |-> TRUE]

\* start that forgets to clear the completion flag
LORA_startTxKeepsFlag(ptr, len, st, flag, state) ==
  IF ptr.null \/ len = 0 \/ len > MaxTxLen
  THEN [ret |-> FALSE, flag |-> flag, state |-> ERR_INVALID_PAYLOAD,
        called |-> FALSE]
  ELSE [ret |-> (st = ERR_NONE), flag |-> flag, state |-> st, called |-> TRUE]

\* bool LORA_startTx(const uint8_t* payload, size_t len), the driver answering
\* st when asked: the return value, the flag and the state afterwards, and
\* whether radio.startTransmit was called
LORA_startTx(ptr, len, st, flag, state) ==
  IF ptr.null \/ len = 0 \/ len > MaxTxLen
  THEN [ret |-> FALSE, flag |-> flag, state |-> ERR_INVALID_PAYLOAD,
        called |-> FALSE]
  ELSE [ret |-> (st = ERR_NONE), flag |-> FALSE, state |-> st, called |-> TRUE]

\* bool LORA_isTxDone()
LORA_isTxDone == transmittedFlag

\* int LORA_lastState()
LORA_lastState == transmissionState

\* a handler that closes the send out itself
onPacketSentISRClosesOut ==
  /\ radioInit
  /\ radioIrq
  /\ transmittedFlag' = TRUE
  /\ txInProgress' = FALSE
  /\ radioIrq' = FALSE
  /\ UNCHANGED <<transmissionState, payload, lastSentHHMMSS, gps, radioInit,
                 radioBusy, txObsVars>>
  /\ UNCHANGED otherThanTx

\* static void onPacketSentISR()
onPacketSentISR ==
  /\ radioInit
  /\ radioIrq
  /\ transmittedFlag' = TRUE
  /\ radioIrq' = FALSE
  /\ UNCHANGED <<transmissionState, txMainVars, gps, radioInit, radioBusy,
                 txObsVars>>
  /\ UNCHANGED otherThanTx

NoTick ==
  [ran |-> FALSE, fix |-> FALSE, valid |-> FALSE, inFlight |-> FALSE,
   hhmmss |-> 0, key |-> 0, closed |-> FALSE, doneSeen |-> FALSE,
   encLen |-> 0, attempted |-> FALSE, accepted |-> FALSE]

NoCall ==
  [op |-> "none", null |-> FALSE, len |-> 0, st |-> ERR_NONE, ret |-> FALSE,
   called |-> FALSE, flagBefore |-> FALSE, stateBefore |-> ERR_NONE,
   busyBefore |-> FALSE, flagAfter |-> FALSE, stateAfter |-> ERR_NONE]

\* the state LORA_begin leaves (lines 69-83) and the statics of main.cpp
TxInitState ==
  /\ transmittedFlag = FALSE
  /\ transmissionState = ERR_NONE
  /\ payload = Fill(PayloadLen, 0)
  /\ lastSentHHMMSS = 0
  /\ txInProgress = FALSE
  /\ gps = [fix |-> FALSE, lat |-> 4041680 * SubUnits,
            lon |-> -370380 * SubUnits, hhmmss |-> 0]
  /\ radioInit = TRUE
  /\ radioBusy = FALSE
  /\ radioIrq = FALSE
  /\ sendLog = <<>>
  /\ finishCount = 0
  /\ tickObs = NoTick
  /\ apiObs = NoCall

\* the state setup() leaves: LORA_begin may fail and loop() runs all the same
TxInit ==
  /\ transmittedFlag = FALSE
  /\ radioInit \in BOOLEAN
  /\ transmissionState \in
       (IF radioInit THEN {ERR_NONE} ELSE DriverStatuses \ {ERR_NONE})
  /\ payload = Fill(PayloadLen, 0)
  /\ lastSentHHMMSS = 0
  /\ txInProgress = FALSE
  /\ gps = [fix |-> FALSE, lat |-> 4041680 * SubUnits,
            lon |-> -370380 * SubUnits, hhmmss |-> 0]
  /\ radioBusy = FALSE
  /\ radioIrq = FALSE
  /\ sendLog = <<>>
  /\ finishCount = 0
  /\ tickObs = NoTick
  /\ apiObs = NoCall

-----------------------------------------------------------------------------
(* Transmitter: main.cpp, loop() *)

\* a timing rule on the seconds elapsed since midnight
TimingDueElapsed(hhmmss, period) ==
  (((hhmmss \div 10000) * 3600 + ((hhmmss \div 100) % 100) * 60
      + (hhmmss % 100)) % period = 0)

\* uint8_t ss = info.hhmmss % 100; ... (ss % PERIOD == 0), for a PERIOD of period
TimingDueFor(hhmmss, period) == ((hhmmss % 100) % period = 0)

\* the timing rule read off the minutes instead of the seconds
TimingDueOnMinutes(hhmmss) == (((hhmmss \div 100) % 100) % PERIOD = 0)

\* uint8_t ss = info.hhmmss % 100; ... (ss % PERIOD == 0)
TimingDue(hhmmss) == TimingDueFor(hhmmss, PERIOD)

\* hours and minutes (HHMM) of the samples the timing rule is tried on
SchedHhmm == {0, 1, 2115, 2359}

\* values of PERIOD (uint16_t) the timing rule is tried with
SchedPeriods == {1, 7, 10, 30, 59, 60, 61, 90, 100, 120, 3600, 65535}

NoSched ==
  [pc |-> "none", a |-> 0, b |-> 0, period |-> PERIOD, dueA |-> FALSE,
   dueB |-> FALSE]

SchedInitState == sched = NoSched

\* two times of day with the same seconds, and a period
SchedInputs ==
  \E ha \in SchedHhmm, hb \in SchedHhmm, ss \in 0..59, p \in SchedPeriods :
    sched = [pc |-> "start", a |-> ha * 100 + ss, b |-> hb * 100 + ss,
             period |-> p, dueA |-> FALSE, dueB |-> FALSE]

\* lines 81-82 on each of the two samples
SchedDecide ==
  /\ sched.pc = "start"
  /\ sched' = [sched EXCEPT !.pc = "decided",
                            !.dueA = TimingDueFor(sched.a, sched.period),
                            !.dueB = TimingDueFor(sched.b, sched.period)]
  /\ UNCHANGED otherThanSched

\* the scheduler's test without the validity and in-progress conditions
SendDueUnguarded(info, inProgress, key) ==
  /\ info.hhmmss # key
  /\ TimingDue(info.hhmmss)

\* the scheduler's test without the same-second guard
SendDueNoDedupe(info, inProgress, key) ==
  /\ info.valid /\ ~inProgress
  /\ TimingDue(info.hhmmss)

\* if (info.valid && !txInProgress) { nuevoSegundo ... if (nuevoSegundo && (ss % PERIOD == 0))
SendDue(info, inProgress, key) ==
  /\ info.valid /\ ~inProgress
  /\ info.hhmmss # key
  /\ TimingDue(info.hhmmss)

\* a key that is recorded for every start, accepted or not
KeyAfterAnyStart(started, hhmmss, key) == hhmmss

\* if (LORA_startTx(payload, len)) { ... lastSentHHMMSS = info.hhmmss; }
KeyAfter(started, hhmmss, key) == IF started THEN hhmmss ELSE key

\* a close-out whose test of the in-flight marker is inverted
CloseOutDueWhenIdle(inProgress, done) == ~inProgress /\ done

\* a close-out with || in the place of &&
CloseOutDueEither(inProgress, done) == inProgress \/ done

\* a close-out that does not wait for the completion flag
CloseOutDueIgnoresFlag(inProgress, done) == inProgress

\* if (txInProgress && LORA_isTxDone())
CloseOutDue(inProgress, done) == inProgress /\ done

\* one iteration of loop(): g is what GPS_update() leaves in the parser, st
\* what radio.startTransmit() answers if it is called
LoopStep(g, st) ==
  LET closing == CloseOutDue(txInProgress, LORA_isTxDone)
      \* after step 2
      flag1 == IF closing THEN TRUE ELSE transmittedFlag
      busy1 == IF closing THEN FALSE ELSE radioBusy
      irq1  == IF closing THEN FALSE ELSE radioIrq
      prog1 == IF closing THEN FALSE ELSE txInProgress
      \* step 3
      info  == GPS_getInfo(g)
      due   == GPS_hasFix(g) /\ SendDue(info, prog1, lastSentHHMMSS)
      enc   == GPS_buildBinaryPayload(info, Ptr(payload), PayloadLen)
      try   == due /\ enc.ret = PayloadLen
      tx    == LORA_startTx(enc.out, enc.ret, st, flag1, transmissionState)
      sent  == try /\ tx.called
      rad   == RadioStartTransmit(st, busy1, irq1)
  IN
  /\ Len(sendLog) < MaxSends \/ ~sent
  /\ gps' = g
  /\ payload' = IF due THEN enc.out.bytes ELSE payload
  /\ transmittedFlag' = IF try THEN tx.flag ELSE flag1
  /\ transmissionState' = IF try THEN tx.state ELSE transmissionState
  /\ txInProgress' = IF try /\ tx.ret THEN TRUE ELSE prog1
  /\ lastSentHHMMSS' =
       IF try THEN KeyAfter(tx.ret, info.hhmmss, lastSentHHMMSS)
              ELSE lastSentHHMMSS
  /\ radioBusy' = IF sent THEN rad.busy ELSE busy1
  /\ radioIrq' = IF sent THEN rad.irq ELSE irq1
  /\ finishCount' = IF closing THEN finishCount + 1 ELSE finishCount
  /\ sendLog' =
       IF sent
       THEN Append(sendLog,
              [hhmmss |-> info.hhmmss, frame |-> SubSeq(enc.out.bytes, 1, enc.ret),
               fix |-> GPS_hasFix(g), valid |-> info.valid, busy |-> busy1,
               st |-> st, fin |-> finishCount'])
       ELSE sendLog
  /\ tickObs' =
       [ran |-> TRUE, fix |-> GPS_hasFix(g), valid |-> info.valid,
        inFlight |-> prog1, hhmmss |-> info.hhmmss, key |-> lastSentHHMMSS,
        closed |-> closing, doneSeen |-> LORA_isTxDone,
        encLen |-> IF due THEN enc.ret ELSE 0,
        attempted |-> sent, accepted |-> (try /\ tx.ret)]
  /\ UNCHANGED <<radioInit, apiObs>>
  /\ UNCHANGED otherThanTx

\* void loop()
loop ==
  \E g \in GPS_update(gps), st \in DriverStatuses : LoopStep(g, st)

NextTx ==
  \/ loop
  \/ onPacketSentISR

-----------------------------------------------------------------------------
(* Transmitter: the functions of lora_handler.h called in any order *)

\* frames a caller may hand to LORA_startTx: none, empty, 1, 13, 256, 257 bytes
ApiFrames ==
  {NullPtr} \cup
  {Ptr(Fill(n, 0)) : n \in {0, 1, PayloadLen, MaxTxLen, MaxTxLen + 1}}

Call(op, ptr, st, ret, called) ==
  [op |-> op, null |-> ptr.null, len |-> Len(ptr.bytes), st |-> st,
   ret |-> ret, called |-> called, flagBefore |-> transmittedFlag,
   stateBefore |-> transmissionState, busyBefore |-> radioBusy,
   flagAfter |-> transmittedFlag', stateAfter |-> transmissionState']

\* LORA_startTx(data, len)
ApiStartTx ==
  /\ Len(sendLog) < MaxSends
  /\ \E ptr \in ApiFrames, st \in DriverStatuses :
       LET tx  == LORA_startTx(ptr, Len(ptr.bytes), st, transmittedFlag,
                               transmissionState)
           rad == RadioStartTransmit(st, radioBusy, radioIrq)
       IN
       /\ transmittedFlag' = tx.flag
       /\ transmissionState' = tx.state
       /\ radioBusy' = IF tx.called THEN rad.busy ELSE radioBusy
       /\ radioIrq' = IF tx.called THEN rad.irq ELSE radioIrq
       /\ sendLog' =
            IF tx.called
            THEN Append(sendLog,
                   [hhmmss |-> 0, frame |-> <<>>, fix |-> FALSE,
                    valid |-> FALSE, busy |-> radioBusy, st |-> st,
                    fin |-> finishCount])
            ELSE sendLog
       /\ apiObs' = Call("startTx", ptr, st, tx.ret, tx.called)
  /\ UNCHANGED <<txMainVars, gps, radioInit, finishCount, tickObs>>
  /\ UNCHANGED otherThanTx

\* LORA_finishTx(): radio.finishTransmit(); transmittedFlag = true
ApiFinishTx ==
  /\ finishCount < MaxFinish
  /\ transmittedFlag' = TRUE
  /\ radioBusy' = FALSE
  /\ radioIrq' = FALSE
  /\ finishCount' = finishCount + 1
  /\ UNCHANGED <<transmissionState, txMainVars, gps, radioInit, sendLog, tickObs>>
  /\ apiObs' = Call("finishTx", NullPtr, ERR_NONE, FALSE, TRUE)
  /\ UNCHANGED otherThanTx

\* LORA_isTxDone() and LORA_lastState(): reads
ApiRead ==
  /\ UNCHANGED <<txLoraVars, txMainVars, gps, txRadioVars, sendLog,
                 finishCount, tickObs>>
  /\ apiObs' = Call("isTxDone", NullPtr, LORA_lastState, LORA_isTxDone, FALSE)
  /\ UNCHANGED otherThanTx

NextApi ==
  \/ ApiStartTx
  \/ ApiFinishTx
  \/ ApiRead
  \/ onPacketSentISR

-----------------------------------------------------------------------------
(* Receiver: collaborators (RadioLib SX1262 in continuous receive) *)

\* what radio.readData() may answer
RxStatuses == {ERR_NONE, "RADIOLIB_ERR_CRC_MISMATCH"}

\* the frame of a second sample: time 10, latitude -0.00001, longitude 180
OtherFrame == <<1, 10, 0, 0, 0, 255, 255, 255, 255, 128, 168, 18, 1>>

\* packets on the air: two encoded samples, a frame with marker 0, a short
\* one, one longer than the buffer, and 13 bytes of marker 1 from elsewhere
RxPackets ==
  {[bytes |-> ScenarioFrame, rssi |-> -80, snr |-> 9],
   [bytes |-> OtherFrame, rssi |-> -100, snr |-> 5],
   [bytes |-> <<0>> \o SubSeq(ScenarioFrame, 2, PayloadLen), rssi |-> -110, snr |-> -3],
   [bytes |-> Fill(PayloadLen - 1, 1), rssi |-> -90, snr |-> 7],
   [bytes |-> Fill(LORA_MAX_READ + 6, 1), rssi |-> -95, snr |-> 2],
   [bytes |-> GarbageFrame, rssi |-> -70, snr |-> 11]}

NoPacket == [bytes |-> <<>>, rssi |-> 0, snr |-> 0]

\* radio.getPacketLength(): the length of the packet held, or a value the
\* driver gives when it cannot tell (0, negative)
DriverLens(pkt) == {Len(pkt.bytes), 0, -1}

\* what the transceiver's buffer holds behind the packet
StaleBytes == {0, 255}

\* radio.readData(buf, len): len bytes of the transceiver's buffer, the packet
\* held first and, past its end, what was there before
ReadData(pkt, len, stale) ==
  [i \in 1..len |-> IF i <= Len(pkt.bytes) THEN pkt.bytes[i] ELSE stale]

-----------------------------------------------------------------------------
(* Receiver: lora_handler.cpp *)

\* a clamp that lets a length the driver cannot tell through as it is
ClampLenUpperOnly(len) ==
  IF len > LORA_MAX_READ THEN LORA_MAX_READ ELSE len

\* if (len <= 0) len = LORA_MAX_READ; if (len > LORA_MAX_READ) len = LORA_MAX_READ;
ClampLen(len) ==
  IF len <= 0 THEN LORA_MAX_READ
  ELSE IF len > LORA_MAX_READ THEN LORA_MAX_READ ELSE len

\* a filter that looks at the length only
IsGnssPayloadAnyMarker(len, buf) == len = PayloadLen

\* if (len == 13 && buf[0] == 1)
IsGnssPayload(len, buf) == len = PayloadLen /\ buf[1] = 1

\* a cache that a frame failing the filter or the decode resets
CacheAfterClearsOnFailure(len, buf, last) ==
  IF IsGnssPayload(len, buf)
  THEN LET r == GPS_parsePayloadRx(Ptr(buf), PayloadLen, GpsInfoZero) IN
         IF r.ok /\ r.out.valid THEN r.out ELSE GpsInfoZero
  ELSE GpsInfoZero

\* a filter that looks at the first byte and not at the length
CacheAfterAnyLength(len, buf, last) ==
  IF Len(buf) >= PayloadLen /\ buf[1] = 1
  THEN LET r == GPS_parsePayloadRx(Ptr(SubSeq(buf, 1, PayloadLen)), PayloadLen,
                                   GpsInfoZero) IN
         IF r.ok /\ r.out.valid THEN r.out ELSE last
  ELSE last

\* the cache after the filter and GPS_parsePayload(buf, 13, gi) && gi.valid
CacheAfter(len, buf, last) ==
  IF IsGnssPayload(len, buf)
  THEN LET r == GPS_parsePayloadRx(Ptr(buf), PayloadLen, GpsInfoZero) IN
         IF r.ok /\ r.out.valid THEN r.out ELSE last
  ELSE last

\* bool LORA_lastValidGPS(GpsInfo& out, float* rssi_dBm, float* snr_dB) over
\* a cache c = [gps, rssi, snr]: found, and what the out parameters receive
LORA_lastValidGPS(c) ==
  IF ~c.gps.valid THEN [found |-> FALSE]
  ELSE [found |-> TRUE, out |-> c.gps, rssi |-> c.rssi, snr |-> c.snr]

Cache == [gps |-> s_lastGps, rssi |-> s_lastRssi, snr |-> s_lastSnr]

\* static void onPacketISR(), run when the transceiver has taken in pkt
PacketISR(pkt) ==
  /\ radioPkt' = pkt
  /\ s_rxFlag' = TRUE
  /\ pktReads' = 0
  /\ UNCHANGED <<s_lastGps, s_lastRssi, s_lastSnr, rxLocalVars, rxObsVars, readObs>>

\* the interrupt for a packet from anywhere on the air
onPacketISR ==
  /\ \E pkt \in RxPackets : PacketISR(pkt)
  /\ UNCHANGED otherThanRx

NoRxObs ==
  [ran |-> FALSE, seen |-> FALSE, lenRep |-> 0, rssiRep |-> 0, snrRep |-> 0]

\* what the caller's gi, rssi and snr hold before LORA_lastValidGPS is called:
\* zeros (float rssi=0, snr=0) or what the stack held (GpsInfo gi; float rssi, snr;)
ReadPriors ==
  {[out |-> GpsInfoZero, rssi |-> 0, snr |-> 0],
   [out |-> GpsInfo(Deg(1), Deg(2), 120000, TRUE), rssi |-> 1, snr |-> 1]}

NoRead ==
  [ran |-> FALSE, found |-> FALSE,
   pre |-> [out |-> GpsInfoZero, rssi |-> 0, snr |-> 0],
   post |-> [out |-> GpsInfoZero, rssi |-> 0, snr |-> 0]]

\* the statics of lora_handler.cpp after LORA_begin and LORA_startRx
RxInitState ==
  /\ s_rxFlag = FALSE
  /\ s_lastGps = GpsInfoZero
  /\ s_lastRssi = 0
  /\ s_lastSnr = 0
  /\ rxPc = "idle"
  /\ rxLen = 0
  /\ rxBuf = <<>>
  /\ rxSt = ERR_NONE
  /\ radioPkt = NoPacket
  /\ rxPre = [flag |-> FALSE, cache |-> [gps |-> GpsInfoZero, rssi |-> 0, snr |-> 0]]
  /\ rxCalls = <<>>
  /\ rxObs = NoRxObs
  /\ pktReads = 0
  /\ readObs = NoRead

\* a tick without the early return
RxTickEnterNoFastPath ==
  /\ rxPc = "idle"
  /\ rxPre' = [flag |-> s_rxFlag, cache |-> Cache]
  /\ rxCalls' = <<>>
  /\ rxPc' = "clear"
  /\ rxObs' = NoRxObs
  /\ rxLen' = 0
  /\ rxBuf' = <<>>
  /\ rxSt' = ERR_NONE
  /\ readObs' = NoRead
  /\ UNCHANGED <<rxStateVars, radioPkt, pktReads>>
  /\ UNCHANGED otherThanRx

\* LORA_rxTick(), line 92: if (!s_rxFlag) return;
RxTickEnter ==
  /\ rxPc = "idle"
  /\ rxPre' = [flag |-> s_rxFlag, cache |-> Cache]
  /\ rxCalls' = <<>>
  /\ IF ~s_rxFlag
     THEN /\ rxPc' = "idle"
          /\ rxObs' = [NoRxObs EXCEPT !.ran = TRUE]
     ELSE /\ rxPc' = "clear"
          /\ rxObs' = NoRxObs
  /\ rxLen' = 0
  /\ rxBuf' = <<>>
  /\ rxSt' = ERR_NONE
  /\ readObs' = NoRead
  /\ UNCHANGED <<rxStateVars, radioPkt, pktReads>>
  /\ UNCHANGED otherThanRx

\* line 95: s_rxFlag = false;
RxTickClear ==
  /\ rxPc = "clear"
  /\ s_rxFlag' = FALSE
  /\ rxPc' = "len"
  /\ UNCHANGED <<s_lastGps, s_lastRssi, s_lastSnr, rxLen, rxBuf, rxSt,
                 radioPkt, rxObsVars, pktReads, readObs>>
  /\ UNCHANGED otherThanRx

\* lines 98-100: len = radio.getPacketLength() and the clamp
RxTickLen ==
  /\ rxPc = "len"
  /\ \E n \in DriverLens(radioPkt) :
       /\ rxLen' = ClampLen(n)
       /\ rxObs' = [NoRxObs EXCEPT !.lenRep = n]
  /\ rxCalls' = Append(rxCalls, "getPacketLength")
  /\ rxPc' = "read"
  /\ UNCHANGED <<rxStateVars, rxBuf, rxSt, radioPkt, rxPre, pktReads, readObs>>
  /\ UNCHANGED otherThanRx

\* lines 102-103: st = radio.readData(buf, len)
RxTickRead ==
  /\ rxPc = "read"
  /\ \E st \in RxStatuses, stale \in StaleBytes :
       /\ rxSt' = st
       /\ rxBuf' = IF st = ERR_NONE THEN ReadData(radioPkt, rxLen, stale) ELSE <<>>
  /\ rxCalls' = Append(rxCalls, "readData")
  /\ pktReads' = IF pktReads < MaxReads THEN pktReads + 1 ELSE pktReads
  /\ rxPc' = "process"
  /\ UNCHANGED <<rxStateVars, rxLen, radioPkt, rxPre, rxObs, readObs>>
  /\ UNCHANGED otherThanRx

\* a tick that returns as soon as the read fails
RxTickProcessReturnsOnError ==
  /\ rxPc = "process"
  /\ IF rxSt = ERR_NONE
     THEN /\ s_lastRssi' = radioPkt.rssi
          /\ s_lastSnr' = radioPkt.snr
          /\ s_lastGps' = CacheAfter(rxLen, rxBuf, s_lastGps)
          /\ rxCalls' = rxCalls \o <<"getRSSI", "getSNR">>
          /\ rxPc' = "rearm"
          /\ rxObs' = [rxObs EXCEPT !.rssiRep = radioPkt.rssi,
                                    !.snrRep = radioPkt.snr]
     ELSE /\ UNCHANGED <<s_lastRssi, s_lastSnr, s_lastGps, rxCalls>>
          /\ rxPc' = "idle"
          /\ rxObs' = [rxObs EXCEPT !.ran = TRUE, !.seen = TRUE]
  /\ UNCHANGED <<s_rxFlag, rxLen, rxBuf, rxSt, radioPkt, rxPre, pktReads, readObs>>
  /\ UNCHANGED otherThanRx

\* a tick that stores the metrics only of a frame that passes the filter
RxTickProcessMetricsOnDecode ==
  /\ rxPc = "process"
  /\ IF rxSt = ERR_NONE
     THEN /\ s_lastRssi' = IF IsGnssPayload(rxLen, rxBuf) THEN radioPkt.rssi
                                                         ELSE s_lastRssi
          /\ s_lastSnr' = IF IsGnssPayload(rxLen, rxBuf) THEN radioPkt.snr
                                                        ELSE s_lastSnr
          /\ s_lastGps' = CacheAfter(rxLen, rxBuf, s_lastGps)
          /\ rxCalls' = rxCalls \o <<"getRSSI", "getSNR">>
          /\ rxObs' = [rxObs EXCEPT !.rssiRep = radioPkt.rssi,
                                    !.snrRep = radioPkt.snr]
     ELSE UNCHANGED <<s_lastRssi, s_lastSnr, s_lastGps, rxCalls, rxObs>>
  /\ rxPc' = "rearm"
  /\ UNCHANGED <<s_rxFlag, rxLen, rxBuf, rxSt, radioPkt, rxPre, pktReads, readObs>>
  /\ UNCHANGED otherThanRx

\* lines 105-119: metrics, filter, decode; rxObs keeps what radio.getRSSI()
\* and radio.getSNR() answered
RxTickProcess ==
  /\ rxPc = "process"
  /\ IF rxSt = ERR_NONE
     THEN /\ s_lastRssi' = radioPkt.rssi
          /\ s_lastSnr' = radioPkt.snr
          /\ s_lastGps' = CacheAfter(rxLen, rxBuf, s_lastGps)
          /\ rxCalls' = rxCalls \o <<"getRSSI", "getSNR">>
          /\ rxObs' = [rxObs EXCEPT !.rssiRep = radioPkt.rssi,
                                    !.snrRep = radioPkt.snr]
     ELSE UNCHANGED <<s_lastRssi, s_lastSnr, s_lastGps, rxCalls, rxObs>>
  /\ rxPc' = "rearm"
  /\ UNCHANGED <<s_rxFlag, rxLen, rxBuf, rxSt, radioPkt, rxPre, pktReads, readObs>>
  /\ UNCHANGED otherThanRx

\* a tick that clears the flag when it is done with the frame
RxTickRearmClearsFlag ==
  /\ rxPc = "rearm"
  /\ s_rxFlag' = FALSE
  /\ rxCalls' = Append(rxCalls, "startReceive")
  /\ rxObs' = [rxObs EXCEPT !.ran = TRUE, !.seen = TRUE]
  /\ rxPc' = "idle"
  /\ UNCHANGED <<s_lastGps, s_lastRssi, s_lastSnr, rxLen, rxBuf, rxSt, radioPkt,
                 rxPre, pktReads, readObs>>
  /\ UNCHANGED otherThanRx

\* line 122: radio.startReceive(), and the return
RxTickRearm ==
  /\ rxPc = "rearm"
  /\ rxCalls' = Append(rxCalls, "startReceive")
  /\ rxObs' = [rxObs EXCEPT !.ran = TRUE, !.seen = TRUE]
  /\ rxPc' = "idle"
  /\ UNCHANGED <<rxStateVars, rxLen, rxBuf, rxSt, radioPkt, rxPre, pktReads, readObs>>
  /\ UNCHANGED otherThanRx

\* a read that writes the out parameters before it tests the validity
CacheReadWritesWhenNotFound ==
  /\ rxPc = "idle"
  /\ \E prior \in ReadPriors :
       readObs' = [ran |-> TRUE, found |-> s_lastGps.valid, pre |-> prior,
                   post |-> [out |-> s_lastGps, rssi |-> s_lastRssi,
                             snr |-> s_lastSnr]]
  /\ UNCHANGED <<rxStateVars, rxLocalVars, radioPkt, rxObsVars, pktReads>>
  /\ UNCHANGED otherThanRx

\* LORA_lastValidGPS(gi, &rssi, &snr) as loop() and the /coords.txt handler
\* call it, between two ticks
CacheRead ==
  /\ rxPc = "idle"
  /\ \E prior \in ReadPriors :
       LET r == LORA_lastValidGPS(Cache) IN
       readObs' = [ran |-> TRUE, found |-> r.found, pre |-> prior,
                   post |-> IF r.found
                            THEN [out |-> r.out, rssi |-> r.rssi, snr |-> r.snr]
                            ELSE prior]
  /\ UNCHANGED <<rxStateVars, rxLocalVars, radioPkt, rxObsVars, pktReads>>
  /\ UNCHANGED otherThanRx

NextRx ==
  \/ CacheRead
  \/ onPacketISR
  \/ RxTickEnter
  \/ RxTickClear
  \/ RxTickLen
  \/ RxTickRead
  \/ RxTickProcess
  \/ RxTickRearm

-----------------------------------------------------------------------------
(* The two nodes and the radio channel between them *)

\* nothing is on its way
ChanInitState == chanNext = 1

\* what radio.startTransmit() answers on the link
LinkStatuses == {ERR_NONE, "RADIOLIB_ERR_SPI_CMD_FAILED"}

\* signal strength and signal-to-noise ratio of the i-th frame at the receiver
LinkMetrics(i) == [rssi |-> -80 - i, snr |-> 9 - i]

\* loop() of the transmitter with a receiver that has a fix
LinkLoop ==
  \E g \in {n \in GPS_update(gps) : n.fix}, st \in LinkStatuses : LoopStep(g, st)

\* the channel loses the oldest frame on its way (or the driver never sent it)
ChannelDrop ==
  /\ chanNext <= Len(sendLog)
  /\ chanNext' = chanNext + 1
  /\ UNCHANGED <<codecVars, txVars, rxVars, sched>>

\* the channel delivers the oldest frame on its way byte for byte: the
\* receiver's transceiver takes it in and raises onPacketISR
ChannelDeliver ==
  /\ chanNext <= Len(sendLog)
  /\ sendLog[chanNext].st = ERR_NONE
  /\ PacketISR([bytes |-> sendLog[chanNext].frame,
                rssi |-> LinkMetrics(chanNext).rssi,
                snr |-> LinkMetrics(chanNext).snr])
  /\ chanNext' = chanNext + 1
  /\ UNCHANGED <<codecVars, txVars, sched>>

NextLink ==
  \/ LinkLoop
  \/ onPacketSentISR
  \/ ChannelDrop
  \/ ChannelDeliver
  \/ RxTickEnter
  \/ RxTickClear
  \/ RxTickLen
  \/ RxTickRead
  \/ RxTickProcess
  \/ RxTickRearm

-----------------------------------------------------------------------------
(* Specifications *)

CodecNext ==
  \/ CodecEncode
  \/ CodecDecode
  \/ CodecDecodeRaw

\* the codec on its own
InitCodec == CodecInputs /\ TxInitState /\ RxInitState /\ SchedInitState /\ ChanInitState

SpecCodec == InitCodec /\ [][CodecNext]_vars

\* the transmitter node: loop() and the send-complete interrupt
InitTxLoop == TxInit /\ CodecInitState /\ RxInitState /\ SchedInitState /\ ChanInitState

SpecTxLoop == InitTxLoop /\ [][NextTx]_vars

\* the transmitter node once LORA_begin has succeeded, with a loop() that
\* keeps running and a transceiver that raises its interrupt for every
\* accepted send
InitTxLive == TxInitState /\ CodecInitState /\ RxInitState /\ SchedInitState /\ ChanInitState

SpecTxLive ==
  InitTxLive /\ [][NextTx]_vars /\ WF_vars(loop) /\ WF_vars(onPacketSentISR)

\* lora_handler.h of the transmitter under any caller
InitApi == TxInitState /\ CodecInitState /\ RxInitState /\ SchedInitState /\ ChanInitState

SpecApi == InitApi /\ [][NextApi]_vars

\* the receiver node: LORA_rxTick and the frame-ready interrupt
InitRx == RxInitState /\ CodecInitState /\ TxInitState /\ SchedInitState /\ ChanInitState

SpecRx == InitRx /\ [][NextRx]_vars

\* both nodes and the channel
InitLink ==
  TxInitState /\ RxInitState /\ CodecInitState /\ SchedInitState /\ ChanInitState

SpecLink == InitLink /\ [][NextLink]_vars

\* the timing rule on its own
InitSched == SchedInputs /\ CodecInitState /\ TxInitState /\ RxInitState /\ ChanInitState

SpecSched == InitSched /\ [][SchedDecide]_vars

-----------------------------------------------------------------------------
(* Claims *)

\* the value of four little-endian bytes read as unsigned
WireUnsigned(b) == b[1] + 256 * (b[2] + 256 * (b[3] + 256 * b[4]))

\* the value of four little-endian bytes read as two's complement
WireSigned(b) ==
  WireUnsigned(<<b[1], b[2], b[3], 0>>)
    + 16777216 * (IF b[4] < 128 THEN b[4] ELSE b[4] - 256)

\* r is x (in model units) times 1e5 rounded to the nearest integer, a half
\* going away from zero
IsRoundedHalfAway(r, x) ==
  /\ Abs(r) <= (Abs(x) \div SubUnits) + 1
  /\ 2 * Abs(r * SubUnits - x) <= SubUnits
  /\ (2 * Abs(r * SubUnits - x) = SubUnits) => (Abs(r * SubUnits) > Abs(x))

InRange(info) ==
  /\ Abs(info.lat) <= Deg(90)
  /\ Abs(info.lon) <= Deg(180)
  /\ info.hhmmss \in 0..235959

ScenarioSample == GpsInfo(4041680 * SubUnits, -370380 * SubUnits, 211507, TRUE)

\* C1: a start with a valid frame while an accepted send is not yet finished
\* returns failure, does not call radio.startTransmit and leaves the
\* completion flag and the stored status as they were
C1_StartWhileInFlightRejected ==
  (/\ apiObs.op = "startTx"
   /\ ~apiObs.null
   /\ apiObs.len \in 1..MaxTxLen
   /\ apiObs.busyBefore)
  => (/\ ~apiObs.ret
      /\ ~apiObs.called
      /\ apiObs.flagAfter = apiObs.flagBefore
      /\ apiObs.stateAfter = apiObs.stateBefore)

\* C2: radio.startTransmit is never called in two loop iterations that see
\* the same time of day, whatever the driver answered
C2_OneSendPerTimeOfDay ==
  \A i, j \in DOMAIN sendLog :
    i # j => sendLog[i].hhmmss # sendLog[j].hhmmss

\* the finished tick read a frame that is not a 13-byte frame of marker 1
MalformedTick ==
  /\ rxPc = "idle" /\ rxObs.ran /\ rxObs.seen
  /\ rxLen # PayloadLen \/ (rxSt = ERR_NONE /\ rxBuf[1] # 1)

\* C3: after a tick that processed a malformed frame while the cache held a
\* sample, LORA_lastValidGPS gives the sample, the signal strength and the
\* signal-to-noise ratio it gave before that tick
C3_MalformedKeepsSampleAndMetrics ==
  (MalformedTick /\ rxPre.cache.gps.valid)
  => LORA_lastValidGPS(Cache) = LORA_lastValidGPS(rxPre.cache)

\* C4: decoding the encoding of a valid sample in range succeeds and gives a
\* valid sample with the same time of day and latitude and longitude within
\* half a wire step (0.5e-5 degree) of the original
C4_RoundTrip ==
  (cPc = "decoded" /\ cIn.valid /\ InRange(cIn))
  => (/\ dRet
      /\ dOut.valid
      /\ dOut.hhmmss = cIn.hhmmss
      /\ 2 * Abs(dOut.lat - cIn.lat) <= SubUnits
      /\ 2 * Abs(dOut.lon - cIn.lon) <= SubUnits)

C4_Witness ==
  /\ cPc = "decoded" /\ cIn.valid /\ InRange(cIn) /\ dRet
  /\ cIn.lat < 0 /\ cIn.lat % SubUnits # 0
  /\ dOut.lat # cIn.lat
  /\ cIn.lon = Deg(180)

\* C5: decode fails for every input whose length is not 13 or whose first
\* byte is not 1 and succeeds for every 13-byte input whose first byte is 1;
\* encode returns 0 for an invalid sample and for a buffer of fewer than 13
\* bytes (or none) and 13 otherwise
C5_Rejection ==
  /\ (cPc \in {"decoded", "decodedRaw"})
       => (dRet <=> (~dIn.null /\ dLen = PayloadLen /\ dIn.bytes[1] = 1))
  /\ (cPc \in {"encoded", "decoded"})
       => (cRet = IF cIn.valid /\ ~cBuf.null /\ Len(cBuf.bytes) >= PayloadLen
                  THEN 13 ELSE 0)

C5_Witness ==
  /\ cPc = "decodedRaw" /\ dWho = "usuario"
  /\ dLen = PayloadLen /\ dIn.bytes[1] = 2 /\ ~dRet

\* C6: a successful encode writes 13 bytes: 1, the time of day, the rounded
\* latitude times 1e5 and the rounded longitude times 1e5, each as four
\* little-endian bytes (two's complement for the signed ones), and nothing
\* else; the scenario sample gives the scenario frame
C6_Layout ==
  (cPc \in {"encoded", "decoded"} /\ cRet # 0)
  => LET f == cOut.bytes IN
     /\ cRet = 13
     /\ Len(f) = Len(cBuf.bytes)
     /\ \A i \in 1..Len(f) : f[i] \in 0..255
     /\ \A i \in 14..Len(f) : f[i] = cBuf.bytes[i]
     /\ f[1] = 1
     /\ f[5] < 128
     /\ WireUnsigned(SubSeq(f, 2, 5)) = cIn.hhmmss
     /\ IsRoundedHalfAway(WireSigned(SubSeq(f, 6, 9)), cIn.lat)
     /\ IsRoundedHalfAway(WireSigned(SubSeq(f, 10, 13)), cIn.lon)
     /\ (cIn = ScenarioSample) =>
          SubSeq(f, 1, 13) = <<1, 51, 58, 3, 0, 208, 171, 61, 0, 52, 89, 250, 255>>

C6_Witness ==
  /\ cPc = "encoded" /\ cRet = 13 /\ cIn = ScenarioSample
  /\ Len(cOut.bytes) = 16

\* what the last loop iteration met: a valid fix, nothing in flight and a
\* time of day other than the dedupe key
TickEligible ==
  /\ tickObs.ran /\ tickObs.fix /\ tickObs.valid
  /\ ~tickObs.inFlight
  /\ tickObs.hhmmss # tickObs.key

\* C7: in such a tick a send is attempted exactly when the seconds of the
\* time of day are a multiple of the period; with a period of 10, seconds
\* 00 and 10 fire and seconds 05 and 07 do not
C7_TimingRule ==
  TickEligible
  => (/\ tickObs.attempted <=> \E k \in 0..99 : tickObs.hhmmss % 100 = k * PERIOD
      /\ (PERIOD = 10 /\ tickObs.hhmmss % 100 \in {0, 10}) => tickObs.attempted
      /\ (PERIOD = 10 /\ tickObs.hhmmss % 100 \in {5, 7}) => ~tickObs.attempted)

C7_Witness ==
  /\ TickEligible /\ tickObs.hhmmss = 211510 /\ tickObs.attempted
  /\ tickObs.key = 10

\* C8: a tick entered with the frame-ready flag clear returns at once,
\* having made no driver call and leaving the flag, the cached sample and
\* the cached metrics as they were
C8_FastPath ==
  /\ []((rxPc = "idle" /\ rxObs.ran /\ ~rxObs.seen)
          => (rxCalls = <<>> /\ Cache = rxPre.cache /\ ~rxPre.flag))
  /\ [][(RxTickEnter /\ ~s_rxFlag)
          => (/\ rxPc' = "idle"
              /\ rxCalls' = <<>>
              /\ rxObs'.ran /\ ~rxObs'.seen
              /\ UNCHANGED <<s_rxFlag, s_lastGps, s_lastRssi, s_lastSnr, radioPkt>>)]_vars

C8_Witness ==
  /\ rxPc = "idle" /\ rxObs.ran /\ ~rxObs.seen
  /\ rxCalls = <<>> /\ ~s_rxFlag
  /\ s_lastGps.valid /\ s_lastRssi = -90

\* C9: every call of radio.startTransmit by loop() is made with a fix, a
\* valid sample, no accepted send unfinished, and a frame of 13 bytes whose
\* first byte is 1
C9_SendPreconditions ==
  \A i \in DOMAIN sendLog :
    /\ sendLog[i].fix
    /\ sendLog[i].valid
    /\ ~sendLog[i].busy
    /\ Len(sendLog[i].frame) = 13
    /\ sendLog[i].frame[1] = 1

C9_Witness ==
  /\ Len(sendLog) >= 2
  /\ sendLog[1].st = ERR_NONE
  /\ sendLog[2].hhmmss # sendLog[1].hhmmss
  /\ finishCount >= 1

\* C10: a start with a frame of 0 or more than 256 bytes fails without a
\* driver call and without touching the completion flag, and the stored
\* status is then the invalid-length code; a start with 1..256 bytes clears
\* the flag, stores the driver's answer and succeeds exactly when that
\* answer is the success code
C10_StartLengthCheck ==
  (apiObs.op = "startTx" /\ ~apiObs.null)
  => IF apiObs.len = 0 \/ apiObs.len > 256
     THEN /\ ~apiObs.ret
          /\ ~apiObs.called
          /\ apiObs.flagAfter = apiObs.flagBefore
          /\ LORA_lastState = ERR_INVALID_PAYLOAD
     ELSE /\ apiObs.called
          /\ ~apiObs.flagAfter
          /\ LORA_lastState = apiObs.st
          /\ apiObs.ret <=> (apiObs.st = ERR_NONE)
          /\ apiObs.ret => radioBusy

C10_Witness ==
  /\ apiObs.op = "startTx" /\ ~apiObs.null
  /\ apiObs.len = 257 /\ apiObs.flagBefore /\ transmittedFlag
  /\ apiObs.stateBefore = ERR_NONE

\* the last tick met the frame-ready flag set and has returned
TickDone == rxPc = "idle" /\ rxObs.ran /\ rxObs.seen

\* how many times the driver call c appears in the calls of the current tick
CallCount(c) == Cardinality({i \in DOMAIN rxCalls : rxCalls[i] = c})

\* C11: a tick that met the frame-ready flag set has, when it returns, called
\* radio.startReceive exactly once, as its last driver call, whatever the
\* length reported, the read status, the first byte and the decode were; and
\* it does not return before that call
C11_RearmOnce ==
  /\ TickDone => (/\ CallCount("startReceive") = 1
                  /\ rxCalls[Len(rxCalls)] = "startReceive")
  /\ (rxPc \in {"clear", "len", "read", "process", "rearm"})
       => CallCount("startReceive") = 0

C11_Witness ==
  /\ TickDone /\ rxSt # ERR_NONE
  /\ rxCalls = <<"getPacketLength", "readData", "startReceive">>
  /\ rxObs.lenRep = -1

\* C12: after a tick whose read failed, as after one whose read was clean
\* and met a malformed frame, the stored metrics are those the driver has
\* for the frame, the cached sample is the one held before, and
\* radio.startReceive has been called
C12_ReadErrorAsMalformed ==
  (TickDone /\ rxSt # ERR_NONE /\ ~s_rxFlag)
  => (/\ s_lastRssi = radioPkt.rssi
      /\ s_lastSnr = radioPkt.snr
      /\ s_lastGps = rxPre.cache.gps
      /\ CallCount("startReceive") = 1)

\* C13: LORA_lastValidGPS finds nothing at the start; it goes from not found
\* to found only in the step of a tick that decodes a cleanly read 13-byte
\* frame of marker 1; once it has found a sample it finds one after every
\* later step (tick, interrupt, malformed frame, read error), and the cached
\* sample's validity never goes back to false
C13_LastKnownGood ==
  /\ ~LORA_lastValidGPS(Cache).found
  /\ [][/\ LORA_lastValidGPS(Cache).found => LORA_lastValidGPS(Cache').found
        /\ s_lastGps.valid => s_lastGps'.valid
        /\ (~LORA_lastValidGPS(Cache).found /\ LORA_lastValidGPS(Cache').found)
             => (/\ rxPc = "process" /\ rxSt = ERR_NONE
                 /\ rxLen = 13 /\ rxBuf[1] = 1)]_vars

C13_Witness ==
  /\ TickDone /\ rxSt # ERR_NONE
  /\ rxPre.cache.gps.valid
  /\ LORA_lastValidGPS(Cache).found
  /\ LORA_lastValidGPS(Cache).out.hhmmss = 211507

\* C14: a frame-ready interrupt never replaces a signalled frame that no
\* tick has read, and no frame is read by radio.readData more than once
C14_EachFrameReadOnce ==
  [][/\ onPacketISR => (radioPkt = NoPacket \/ pktReads >= 1)
     /\ pktReads' <= 1]_vars

\* C15: a call of LORA_lastValidGPS leaves the cached sample, the cached
\* metrics and the frame-ready flag as they were; when it returns false the
\* caller's gi, rssi and snr hold what they held before the call, and when
\* it returns true they hold the cached sample and metrics
C15_ReadOnlyCache ==
  /\ []((readObs.ran /\ ~readObs.found) => readObs.post = readObs.pre)
  /\ []((readObs.ran /\ readObs.found)
          => readObs.post = [out |-> s_lastGps, rssi |-> s_lastRssi,
                             snr |-> s_lastSnr])
  /\ [][CacheRead
          => UNCHANGED <<s_rxFlag, s_lastGps, s_lastRssi, s_lastSnr, radioPkt>>]_vars

C15_Witness ==
  /\ readObs.ran /\ ~readObs.found
  /\ readObs.pre.rssi = 1 /\ readObs.post.rssi = 1
  /\ s_lastRssi = -90
  /\ s_rxFlag

\* the calls of radio.startTransmit that the driver accepted
AcceptedSends == {i \in DOMAIN sendLog : sendLog[i].st = ERR_NONE}

\* C16: in loop() every accepted start is finalized exactly once before the
\* next call of radio.startTransmit: the finalizes made so far are the
\* accepted starts less the one still in flight, each accepted start was
\* made with every earlier accepted start finalized once and none pending,
\* and a finalize is made only in an iteration that saw the completion flag
\* true while a send was in progress
C16_IdleInFlightIdle ==
  /\ finishCount = Cardinality(AcceptedSends) - (IF txInProgress THEN 1 ELSE 0)
  /\ \A i \in AcceptedSends :
       sendLog[i].fin = Cardinality({j \in AcceptedSends : j < i})
  /\ \A i \in DOMAIN sendLog : ~sendLog[i].busy
  /\ txInProgress <=> radioBusy
  /\ tickObs.closed => tickObs.doneSeen

C16_Witness ==
  /\ Cardinality(AcceptedSends) = 2
  /\ finishCount = 2 /\ ~txInProgress
  /\ tickObs.closed /\ tickObs.doneSeen

\* the last tick met the flag set, read cleanly, was told a length of 13 and
\* found 1 in byte 0 of the buffer
TickDecodes ==
  /\ rxObs.seen /\ rxSt = ERR_NONE
  /\ rxObs.lenRep = 13
  /\ rxBuf[1] = 1

\* the sample the 13 bytes b stand for
WireSample(b) ==
  [lat |-> WireSigned(SubSeq(b, 6, 9)) * SubUnits,
   lon |-> WireSigned(SubSeq(b, 10, 13)) * SubUnits,
   hhmmss |-> WireUnsigned(SubSeq(b, 2, 5)),
   valid |-> TRUE]

\* C17: when a tick has returned, the cached sample differs from the one
\* held when the tick was entered only if the flag was set, the read was
\* clean, the driver reported a length of 13 and byte 0 read is 1; after
\* every such tick the cached sample is the decode of the 13 bytes read and
\* the cached metrics are what the driver answered in that tick (those of
\* the frame read, when no interrupt fell inside the tick)
C17_CacheChangesIff ==
  (rxPc = "idle" /\ rxObs.ran)
  => (/\ (s_lastGps # rxPre.cache.gps) => TickDecodes
      /\ TickDecodes
           => (/\ Len(rxBuf) = 13
               /\ s_lastGps = WireSample(rxBuf)
               /\ s_lastRssi = rxObs.rssiRep
               /\ s_lastSnr = rxObs.snrRep
               /\ ~s_rxFlag => (/\ rxBuf = radioPkt.bytes
                                /\ s_lastRssi = radioPkt.rssi
                                /\ s_lastSnr = radioPkt.snr)))

C17_Witness ==
  /\ rxPc = "idle" /\ rxObs.ran /\ TickDecodes
  /\ rxPre.cache.gps.valid
  /\ s_lastGps # rxPre.cache.gps
  /\ s_lastGps.hhmmss = 10
  /\ s_lastRssi = -100

\* C18: after a tick that met the flag set and read cleanly, the stored
\* signal strength and signal-to-noise ratio are what radio.getRSSI() and
\* radio.getSNR() answered in that tick, whatever the length and the first
\* byte; with no interrupt inside the tick they are those of the packet read
C18_MetricsRecorded ==
  (TickDone /\ rxSt = ERR_NONE)
  => (/\ s_lastRssi = rxObs.rssiRep
      /\ s_lastSnr = rxObs.snrRep
      /\ CallCount("getRSSI") = 1 /\ CallCount("getSNR") = 1
      /\ ~s_rxFlag => (s_lastRssi = radioPkt.rssi /\ s_lastSnr = radioPkt.snr))

C18_Witness ==
  /\ TickDone /\ rxSt = ERR_NONE
  /\ rxLen = LORA_MAX_READ /\ rxBuf[1] = 0
  /\ s_lastGps = rxPre.cache.gps
  /\ s_lastRssi = -110 /\ s_lastSnr = -3
  /\ rxPre.cache.rssi = -80

\* C19: the send-complete flag and the frame-ready flag go from false to
\* true only in a step of their interrupt handler and from true to false
\* only in a step that is not an interrupt handler's
C19_SingleWriterFlags ==
  [][/\ (~transmittedFlag /\ transmittedFlag') => onPacketSentISR
     /\ (transmittedFlag /\ ~transmittedFlag') => ~onPacketSentISR
     /\ (~s_rxFlag /\ s_rxFlag') => onPacketISR
     /\ (s_rxFlag /\ ~s_rxFlag') => ~onPacketISR]_vars

\* C20: from the clear of the flag to the return of the tick nothing clears
\* the flag, so an interrupt that sets it in between leaves it set when the
\* tick returns and until the next tick, which then does not return at
\* line 92 but goes on to clear the flag and read
C20_FlagSetAfterClearSurvives ==
  [][/\ (s_rxFlag /\ rxPc # "clear") => s_rxFlag'
     /\ (onPacketISR /\ rxPc \in {"len", "read", "process", "rearm"})
          => (s_rxFlag' /\ rxPc' = rxPc)
     /\ (RxTickRearm /\ s_rxFlag) => (rxPc' = "idle" /\ s_rxFlag')
     /\ (RxTickEnter /\ s_rxFlag) => rxPc' = "clear"]_vars

C20_Witness ==
  /\ TickDone /\ s_rxFlag
  /\ pktReads = 0
  /\ rxSt = ERR_NONE /\ ~(rxBuf = radioPkt.bytes)
  /\ rxObs.lenRep = 13

\* the last element of AcceptedSends
LastAccepted == CHOOSE i \in AcceptedSends : \A j \in AcceptedSends : j <= i

\* C21: a loop iteration changes the dedupe key only when its start was
\* accepted, and the key is then the time of day of the sample sent; the
\* in-flight marker is raised only by an accepted start; with no start, a
\* failed encode or a rejected start both are as the close-out left them;
\* the key is always the time of day of the last accepted start, or 0
C21_KeyFollowsAcceptedStart ==
  /\ tickObs.ran
       => (/\ tickObs.accepted
                => (lastSentHHMMSS = tickObs.hhmmss /\ txInProgress)
           /\ ~tickObs.accepted
                => (/\ lastSentHHMMSS = tickObs.key
                    /\ txInProgress = tickObs.inFlight)
           /\ tickObs.accepted
                => (tickObs.attempted /\ tickObs.encLen = 13
                    /\ sendLog[Len(sendLog)].st = ERR_NONE))
  /\ lastSentHHMMSS = IF AcceptedSends = {} THEN 0
                      ELSE sendLog[LastAccepted].hhmmss

C21_Witness ==
  /\ tickObs.ran /\ tickObs.attempted /\ ~tickObs.accepted
  /\ tickObs.hhmmss = 211510
  /\ lastSentHHMMSS = 10
  /\ Len(sendLog) = 3

\* C22: the timing decision is the same for two samples whose seconds are
\* equal, whatever their hours and minutes; for a period of 60 or more and
\* seconds in 0..59 it is taken exactly at seconds 00
C22_TimingOnSecondsOnly ==
  (sched.pc = "decided")
  => (/\ sched.dueA = sched.dueB
      /\ (sched.period >= 60 /\ sched.a % 100 \in 0..59)
           => (sched.dueA <=> sched.a % 100 = 0))

C22_Witness ==
  /\ sched.pc = "decided"
  /\ sched.period = 120
  /\ sched.a = 0 /\ sched.b = 211500
  /\ sched.dueA /\ sched.dueB

\* C24: with loop() running on and the send-complete interrupt raised for
\* every accepted send, a send in progress is always followed by a loop
\* iteration whose close-out has called LORA_finishTx once more and cleared
\* the in-flight marker, so that its scheduler met no send in progress
C24_InFlightLeadsToIdle ==
  \A n \in 0..MaxSends :
    (txInProgress /\ finishCount = n)
      ~> (finishCount = n + 1 /\ tickObs.closed /\ ~tickObs.inFlight)

C24_Witness ==
  /\ txInProgress /\ finishCount = 1
  /\ tickObs.closed /\ ~tickObs.inFlight /\ tickObs.accepted
  /\ Len(sendLog) = 2

\* C25: while a send is in progress loop() clears the in-flight marker or
\* calls radio.startTransmit only in an iteration that calls LORA_finishTx,
\* and it calls LORA_finishTx only with a send in progress and the
\* completion flag true; while the flag stays false the send stays in
\* progress and radio.startTransmit is not called
C25_NoExitButFinish ==
  [][/\ (txInProgress /\ (~txInProgress' \/ sendLog' # sendLog))
          => (finishCount' = finishCount + 1 /\ transmittedFlag)
     /\ (finishCount' # finishCount)
          => (txInProgress /\ transmittedFlag /\ finishCount' = finishCount + 1)
     /\ (txInProgress /\ ~transmittedFlag)
          => (txInProgress' /\ sendLog' = sendLog /\ finishCount' = finishCount)]_vars

C25_Witness ==
  /\ ~radioInit
  /\ txInProgress /\ ~transmittedFlag
  /\ tickObs.ran /\ tickObs.inFlight /\ ~tickObs.closed
  /\ tickObs.hhmmss = 211510 /\ tickObs.key = 10
  /\ tickObs.fix

\* C26: in loop(), while the in-flight marker is set LORA_lastState() is
\* RADIOLIB_ERR_NONE, and so it is in every iteration whose close-out
\* calls LORA_finishTx
C26_InFlightStatusIsSuccess ==
  /\ [](txInProgress => LORA_lastState = ERR_NONE)
  /\ [][(finishCount' # finishCount) => LORA_lastState = ERR_NONE]_vars

C26_Witness ==
  /\ txInProgress /\ transmittedFlag
  /\ LORA_lastState = ERR_NONE
  /\ Len(sendLog) = 2 /\ sendLog[1].st # ERR_NONE

\* C27: in an iteration of loop() made before any send was started, with a
\* fix, a valid sample, nothing in flight and seconds that are a multiple
\* of the period, a send is attempted, whatever the time of day
C27_InitialKeySuppressesNothing ==
  (/\ tickObs.ran /\ tickObs.fix /\ tickObs.valid /\ ~tickObs.inFlight
   /\ tickObs.hhmmss \in 0..235959
   /\ (tickObs.hhmmss % 100) % PERIOD = 0
   /\ finishCount = 0
   /\ Len(sendLog) = (IF tickObs.attempted THEN 1 ELSE 0))
  => tickObs.attempted

\* C28: once a tick has asked for the packet length, the length it hands to
\* radio.readData is within 1..64: the reported one when that is within
\* 1..64 and 64 otherwise; the buffer never holds more than 64 bytes; a
\* tick that was told a length that is not positive or is above 64 leaves
\* the cached sample as it was
C28_ReadLengthClamped ==
  /\ (rxPc \in {"read", "process", "rearm"} \/ TickDone)
       => (/\ rxLen \in 1..64
           /\ rxLen = (IF rxObs.lenRep \in 1..64 THEN rxObs.lenRep ELSE 64)
           /\ Len(rxBuf) <= 64
           /\ (rxPc \in {"process", "rearm"} \/ TickDone)
                => Len(rxBuf) \in {0, rxLen})
  /\ (TickDone /\ rxObs.lenRep \notin 1..64) => s_lastGps = rxPre.cache.gps

C28_Witness ==
  /\ TickDone /\ rxSt = ERR_NONE
  /\ rxObs.lenRep = -1 /\ rxLen = 64 /\ Len(rxBuf) = 64
  /\ SubSeq(rxBuf, 1, 13) = ScenarioFrame
  /\ ~s_lastGps.valid

\* C29: a valid cached sample has a time of day within 0..235959, a
\* latitude within [-90, 90] and a longitude within [-180, 180]
C29_CachedSampleInRange ==
  s_lastGps.valid => InRange(s_lastGps)

\* C23: an interrupt handler changes only its own flag. When onPacketSentISR
\* fires, the completion flag is set and the stored status code, the dedupe
\* key, the in-flight marker, the payload buffer, the receiver's statics and
\* the record of driver calls (sends, finishes, receiver calls) stay as they
\* were; when the frame-ready handler fires on a delivered frame, the receive
\* flag is set and the cached sample, the cached metrics, the tick's buffer,
\* the transmitter's statics and the record of driver calls stay as they were.
C23_HandlerChangesOnlyItsFlag ==
  [][ /\ onPacketSentISR =>
           /\ transmittedFlag'
           /\ UNCHANGED <<transmissionState, lastSentHHMMSS, txInProgress,
                          payload, sendLog, finishCount>>
           /\ UNCHANGED <<rxStateVars, rxLocalVars, rxCalls>>
      /\ ChannelDeliver =>
           /\ s_rxFlag'
           /\ UNCHANGED <<s_lastGps, s_lastRssi, s_lastSnr, rxLocalVars, rxCalls>>
           /\ UNCHANGED <<txLoraVars, txMainVars, sendLog, finishCount>>
    ]_vars

\* both handlers have fired for the first frame and no loop has looked yet
C23_Witness ==
  /\ Len(sendLog) = 1 /\ chanNext = 2
  /\ transmittedFlag /\ ~radioIrq /\ txInProgress /\ finishCount = 0
  /\ s_rxFlag /\ rxPc = "idle" /\ ~s_lastGps.valid
  /\ radioPkt.bytes = sendLog[1].frame

\* C30: over a channel that drops a frame or delivers it byte for byte, each
\* time the cached sample changes the new sample is the decode of a frame the
\* transmitter handed to its driver and the channel has delivered, and the
\* sample it replaces is the decode of a frame handed over before that one.
C30_CacheFollowsSends ==
  [][ s_lastGps' # s_lastGps =>
        \E j \in DOMAIN sendLog' :
          /\ j < chanNext'
          /\ s_lastGps' = WireSample(sendLog'[j].frame)
          /\ s_lastGps.valid =>
                \E i \in 1..(j - 1) : s_lastGps = WireSample(sendLog[i].frame)
    ]_vars

\* the cache went from the first frame's sample to the second frame's
C30_Witness ==
  /\ Len(sendLog) >= 2 /\ chanNext >= 3
  /\ rxPc = "rearm"
  /\ rxPre.cache.gps.valid
  /\ rxPre.cache.gps = WireSample(sendLog[1].frame)
  /\ s_lastGps = WireSample(sendLog[2].frame)
  /\ s_lastGps # rxPre.cache.gps

\* C31: the codec is a pure transform also on failure. A decode that returns
\* false leaves the caller's sample as it was before the call; an encode that
\* returns 0 leaves every byte of the caller's buffer as it was; and a call
\* of either changes nothing of the transmitter's statics, the receiver's
\* statics, the transceivers or the channel.
C31_CodecPureOnFailure ==
  [][ /\ (cPc' \in {"decoded", "decodedRaw"} /\ cPc' # cPc /\ ~dRet')
           => dOut' = dPrev'
      /\ (cPc' = "encoded" /\ cPc' # cPc /\ cRet' = 0)
           => cOut' = cBuf'
      /\ (cPc' # cPc)
           => UNCHANGED <<txVars, rxVars, sched, chanNext>>
    ]_vars

\* an encode of an invalid sample into a buffer of 16 bytes has returned 0
C31_Witness ==
  /\ cPc = "encoded" /\ cRet = 0
  /\ ~cIn.valid /\ ~cBuf.null /\ Len(cBuf.bytes) = PayloadLen + 3
  /\ cOut = cBuf

=============================================================================
